---- MODULE Spec2Model ----
(***************************************************************************)
(* Model of anomaly_detection.py: the renewal-equation ILI forecast        *)
(* (ibar, get_epivars, r0_forecast, anomaly_wrapper).                      *)
(*                                                                         *)
(* Numbers.  The program computes in IEEE doubles.  Here a real x is the   *)
(* integer x * Scale (fixed point, 8 decimals: the resolution at which the *)
(* kernel w is written), and np.nan is the value NaN, which every          *)
(* arithmetic operator propagates the way numpy does.  Products, quotients *)
(* and means are exact up to one final truncation; they are computed on    *)
(* 4-digit limbs so that no intermediate leaves 32 bits.  Incidence inputs *)
(* are strictly positive and at most 2.0, so no quotient has a zero        *)
(* denominator.                                                            *)
(*                                                                         *)
(* Tables.  A DataFrame is a sequence of records (rows in positional       *)
(* order); a column is the sequence of one field.  Dates are day ordinals  *)
(* (day 1 = 1 January of the first year), years have YearLen days.         *)
(*                                                                         *)
(* pandas.  The in-place column writes of lines 40, 45 and 119             *)
(* (df[col].iloc[..] = v, fillna(inplace=True)) and the keyword center of  *)
(* lines 43, 44 and 114 take effect, as in the pandas releases of the      *)
(* program's time.  The dates of a region are distinct.                    *)
(***************************************************************************)
EXTENDS Integers, Sequences, FiniteSets, TLC

Scale == 100000000
Limb == 10000
NaN == 2147483647

\* ------------------------------------------------------------------------
\* Fixed-point arithmetic with NaN
\* ------------------------------------------------------------------------
Abs(x) == IF x < 0 THEN -x ELSE x

\* the sequence f as a tuple of values (a function constructor is evaluated
\* entry by entry at each use, a tuple once)
Series(f) == SubSeq(f, 1, Len(f))

Add(x, y) == IF x = NaN \/ y = NaN THEN NaN ELSE x + y

Sub(x, y) == IF x = NaN \/ y = NaN THEN NaN ELSE x - y

\* x * y / Scale for x, y >= 0, truncated
MulAbs(x, y) ==
    LET xh == x \div Limb
        xl == x % Limb
        yh == y \div Limb
        yl == y % Limb
    IN  xh * yh + ((xh * yl + xl * yh + ((xl * yl) \div Limb)) \div Limb)

Mul(x, y) ==
    IF x = NaN \/ y = NaN THEN NaN
    ELSE IF (x < 0) = (y < 0) THEN MulAbs(Abs(x), Abs(y))
    ELSE -MulAbs(Abs(x), Abs(y))

RECURSIVE DivDigits(_, _, _)
\* the first k decimals of r / y, for 0 <= r < y and 10 * y within 32 bits
DivDigits(r, y, k) ==
    IF k = 0 THEN 0
    ELSE ((r * 10) \div y) * (10 ^ (k - 1)) + DivDigits((r * 10) % y, y, k - 1)

DivAbs(x, y) == (x \div y) * Scale + DivDigits(x % y, y, 8)

Div(x, y) ==
    IF x = NaN \/ y = NaN THEN NaN
    ELSE IF (x < 0) = (y < 0) THEN DivAbs(Abs(x), Abs(y))
    ELSE -DivAbs(Abs(x), Abs(y))

\* r * r <= v * Scale, exactly
SquareLeq(r, v) ==
    LET rh   == r \div Limb
        rl   == r % Limb
        mid  == 2 * rh * rl + ((rl * rl) \div Limb)
        quot == rh * rh + (mid \div Limb)
        rem  == (mid % Limb) * Limb + ((rl * rl) % Limb)
    IN  quot < v \/ (quot = v /\ rem = 0)

RECURSIVE SqrtBisect(_, _, _)
\* the largest r in lo..hi with r * r <= v
SqrtBisect(v, lo, hi) ==
    IF lo >= hi THEN lo
    ELSE LET mid == (lo + hi + 1) \div 2
         IN  IF SquareLeq(mid, v) THEN SqrtBisect(v, mid, hi)
             ELSE SqrtBisect(v, lo, mid - 1)

Sqrt(v) == IF v = NaN THEN NaN ELSE SqrtBisect(v, 0, 4 * Scale)

RECURSIVE SumSeq(_)
SumSeq(s) == IF s = <<>> THEN 0 ELSE Head(s) + SumSeq(Tail(s))

Valid(s) == SelectSeq(s, LAMBDA x : x # NaN)

\* (h * Limb + l) / n, truncated
LimbQuot(h, l, n) == (h \div n) * Limb + (((h % n) * Limb + l) \div n)

\* arithmetic mean of a sequence without NaN
MeanAll(s) ==
    LimbQuot(SumSeq([k \in 1..Len(s) |-> s[k] \div Limb]),
             SumSeq([k \in 1..Len(s) |-> s[k] % Limb]), Len(s))

MeanValid(v) == IF v = <<>> THEN NaN ELSE MeanAll(v)

\* Series.mean(), np.mean(Series): NaN entries are skipped
Mean(s) == MeanValid(Valid(s))

\* the mean of the squared distances of v from m
Variance(v, m) == MeanAll([k \in 1..Len(v) |-> Mul(v[k] - m, v[k] - m)])

StdValid(v) == IF v = <<>> THEN NaN ELSE Sqrt(Variance(v, MeanAll(v)))

\* np.std(Series): population standard deviation, NaN entries skipped
Std(s) == StdValid(Valid(s))

MedianSorted(v) ==
    IF Len(v) = 0 THEN NaN
    ELSE IF Len(v) % 2 = 1 THEN v[(Len(v) + 1) \div 2]
    ELSE (v[Len(v) \div 2] + v[(Len(v) \div 2) + 1]) \div 2

\* median of a group of values, NaN entries skipped (groupby(..).median())
Median(s) == MedianSorted(SortSeq(Valid(s), LAMBDA a, b : a < b))

\* ------------------------------------------------------------------------
\* Calendar
\* ------------------------------------------------------------------------
YearLen == 365

\* Series.dt.dayofyear (the input column doy holds the same value)
DayOfYear(ds) == ((ds - 1) % YearLen) + 1

\* ------------------------------------------------------------------------
\* Generation time and effective incidence
\* ------------------------------------------------------------------------
\* the gamma density of lines 12-14 without the normalisation of line 15
w_unnormalised == <<4736235, 50184781, 35416397, 8244237, 1045104>>

w == <<4753979, 50372795, 35549083, 8275124, 1049019>>

Flip(s) == Series([k \in 1..Len(s) |-> s[Len(s) + 1 - k]])

\* a.dot(b) for two sequences of one length: the sum of a[k] * b[k]
Dot(a, b) ==
    LET n  == Len(a)
        hh == SumSeq([k \in 1..n |-> (a[k] \div Limb) * (b[k] \div Limb)])
        hl == SumSeq([k \in 1..n |-> (a[k] \div Limb) * (b[k] % Limb)
                                     + (a[k] % Limb) * (b[k] \div Limb)])
        ll == SumSeq([k \in 1..n |-> (a[k] % Limb) * (b[k] % Limb)])
    IN  IF \E k \in 1..n : a[k] = NaN THEN NaN
        ELSE hh + ((hl + (ll \div Limb)) \div Limb)

\* np.dot raises ValueError when the shapes differ
ShapeMismatch(ili, kernel) == Len(ili) # Len(kernel)

\* the kernel applied in time order, index 0 on the oldest value
ibar_unflipped(ili, kernel) == Dot(ili, kernel)

ibar(ili, kernel) == Dot(Flip(ili), kernel)

\* ------------------------------------------------------------------------
\* get_epivars
\* ------------------------------------------------------------------------
Column(df, f) == Series([i \in 1..Len(df) |-> df[i][f]])

\* Series.shift(-1)
ShiftBack(s) == Series([i \in 1..Len(s) |-> IF i < Len(s) THEN s[i + 1] ELSE NaN])

\* Series.rolling(window).mean(center=True): the window of row i reaches
\* window - 1 - (window - 1) \div 2 rows back and (window - 1) \div 2 rows ahead
RollingMeanCenter(s, window) ==
    Series([i \in 1..Len(s) |->
        LET hi == i + ((window - 1) \div 2)
            lo == hi - (window - 1)
        IN  IF lo < 1 \/ hi > Len(s) THEN NaN
            ELSE IF \E j \in lo..hi : s[j] = NaN THEN NaN
            ELSE MeanAll(SubSeq(s, lo, hi))])

\* Series.rolling(5).apply(lambda x: ibar(x, w))
RollingIbar(s, kernel) ==
    Series([i \in 1..Len(s) |->
        IF i < Len(kernel) THEN NaN
        ELSE IF \E j \in (i - Len(kernel) + 1)..i : s[j] = NaN THEN NaN
        ELSE ibar(SubSeq(s, i - Len(kernel) + 1, i), kernel)])

Min(a, b) == IF a < b THEN a ELSE b

SmoothWindow == 30

WarmUp(rolled, warm) ==
    Series([k \in 1..Len(rolled) |-> IF k <= 5 THEN warm ELSE rolled[k]])

\* lines 39-40
IbarColumn(ill, kernel) ==
    WarmUp(RollingIbar(ill, kernel), Mean(SubSeq(ill, 1, Min(5, Len(ill)))))

Ratio(num, den) == Series([k \in 1..Len(num) |-> Div(num[k], den[k])])

\* Series.fillna(value)
FillNa(s, value) == Series([k \in 1..Len(s) |-> IF s[k] = NaN THEN value ELSE s[k]])

FillWithMean(s) == FillNa(s, Mean(s))

\* lines 43-45
RColumn(ill, ib) ==
    FillWithMean(Ratio(RollingMeanCenter(ShiftBack(ill), SmoothWindow),
                       RollingMeanCenter(ib, SmoothWindow)))

WithEpivars(df, ib, r) ==
    Series([k \in 1..Len(df) |->
        [region |-> df[k].region, ds |-> df[k].ds, doy |-> df[k].doy,
         percent_ill |-> df[k].percent_ill, ibar |-> ib[k], R |-> r[k]]])

WithIbar(df, ib) == WithEpivars(df, ib, RColumn(Column(df, "percent_ill"), ib))

get_epivars(df, kernel) ==
    WithIbar(df, IbarColumn(Column(df, "percent_ill"), kernel))

\* ------------------------------------------------------------------------
\* r0_forecast
\* ------------------------------------------------------------------------
SocialDoy == 76

MaxDs(df) == CHOOSE d \in {df[k].ds : k \in 1..Len(df)} :
                 \A k \in 1..Len(df) : df[k].ds <= d

\* df.groupby('doy')['R'].median(): one entry per day of year in df
AvgR(df) ==
    [d \in {df[k].doy : k \in 1..Len(df)} |->
        Median(Column(SelectSeq(df, LAMBDA r : r.doy = d), "R"))]

\* the multiplier applied after day SocialDoy only
ApplySocialModAfter(avgR, social_mod) ==
    IF social_mod # <<>>
    THEN [d \in DOMAIN avgR |->
             IF d > SocialDoy THEN Mul(avgR[d], social_mod[1]) ELSE avgR[d]]
    ELSE avgR

\* lines 66-71; social_mod is <<>> for None and <<m>> for the multiplier m
ApplySocialMod(avgR, social_mod) ==
    IF social_mod # <<>>
    THEN [d \in DOMAIN avgR |->
             IF d >= SocialDoy THEN Mul(avgR[d], social_mod[1]) ELSE avgR[d]]
    ELSE avgR

\* pd.date_range(cutoff - 4 days, cutoff + horiz_days days)
PredDates(cutoff, horiz_days) ==
    Series([k \in 1..(horiz_days + 5) |-> cutoff - 4 + (k - 1)])

\* the column percent_ill of the left merge on ds (one row per date in df)
IllOn(df, ds) ==
    IF \E k \in 1..Len(df) : df[k].ds = ds
    THEN df[CHOOSE k \in 1..Len(df) : df[k].ds = ds].percent_ill
    ELSE NaN

MergeRows(kept, avgR, df) ==
    Series([k \in 1..Len(kept) |->
        [ds |-> kept[k], doy |-> DayOfYear(kept[k]),
         avg_r |-> avgR[DayOfYear(kept[k])],
         percent_ill |-> IllOn(df, kept[k])]])

MergeRowsLeft(dates, avgR, df) ==
    Series([k \in 1..Len(dates) |->
        [ds |-> dates[k], doy |-> DayOfYear(dates[k]),
         avg_r |-> IF DayOfYear(dates[k]) \in DOMAIN avgR
                   THEN avgR[DayOfYear(dates[k])] ELSE NaN,
         percent_ill |-> IllOn(df, dates[k])]])

\* both merges as left merges: every date keeps its row
MergeLeft(dates, avgR, df) == MergeRowsLeft(dates, avgR, df)

\* lines 80-81: forc_df.merge(avgR, on='doy') is an inner merge, a date whose
\* day of year avgR lacks loses its row; the merge on ds is a left merge
Merge(dates, avgR, df) ==
    MergeRows(SelectSeq(dates, LAMBDA d : DayOfYear(d) \in DOMAIN avgR), avgR, df)

RECURSIVE ForecastLoop(_, _, _, _)
ForecastStep(frame, kernel, j, last, ili) ==
    IF ShapeMismatch(ili, kernel) THEN [err |-> "ValueError", frame |-> frame]
    ELSE IF j > Len(frame) THEN [err |-> "KeyError", frame |-> frame]
    ELSE ForecastLoop([frame EXCEPT ![j].percent_ill =
                          Mul(ibar(ili, kernel), frame[j].avg_r)],
                      kernel, j + 1, last)

\* the loop of lines 84-86 from row j (1-based, row j is label j - 1) to
\* row last; err is the exception that ends it
ForecastLoop(frame, kernel, j, last) ==
    IF j > last THEN [err |-> "none", frame |-> frame]
    ELSE ForecastStep(frame, kernel, j, last,
             Column(SubSeq(frame, j - 5, Min(j - 1, Len(frame))), "percent_ill"))

Saved(rows, cutoff) ==
    Series([k \in 1..Len(rows) |->
        [ds |-> rows[k].ds, cutoff |-> cutoff, percent_ill |-> rows[k].percent_ill]])

\* lines 89-92
Outcome(loop, avgR, cutoff) ==
    IF loop.err # "none" THEN [err |-> loop.err, avgR |-> avgR, rows |-> <<>>]
    ELSE [err |-> "none", avgR |-> avgR,
          rows |-> Saved(SelectSeq(loop.frame, LAMBDA r : r.ds > cutoff), cutoff)]

Forecast(df, kernel, horiz_days, incubation_days, cutoff, avgR) ==
    Outcome(ForecastLoop(Merge(PredDates(cutoff, horiz_days), avgR, df), kernel,
                         incubation_days + 1, horiz_days + incubation_days),
            avgR, cutoff)

\* the value returned (rows) or the exception raised (err), with the local
\* avgR; pd.date_range raises ValueError for the NaT of an empty df
r0_forecast(df, kernel, horizon, social_mod) ==
    IF df = <<>> THEN [err |-> "ValueError", avgR |-> <<>>, rows |-> <<>>]
    ELSE Forecast(df, kernel, horizon * 7, Len(kernel), MaxDs(df),
                  ApplySocialMod(AvgR(df), social_mod))

\* ------------------------------------------------------------------------
\* anomaly_wrapper: the pieces of the loop bodies
\* ------------------------------------------------------------------------
Indices(s) == Series([k \in 1..Len(s) |-> k])

Pick(s, at) == Series([k \in 1..Len(at) |-> s[at[k]]])

\* Series.unique(): the values in order of first appearance
Unique(s) ==
    Pick(s, SelectSeq(Indices(s), LAMBDA k : \A j \in 1..(k - 1) : s[j] # s[k]))

\* df.sort_values('ds')
SortByDs(df) == SortSeq(df, LAMBDA a, b : a.ds < b.ds)

\* lines 105-106: region_df.sort_values('ds') returns a new frame, which
\* reset_index(inplace=True) changes and line 106 then drops; region_df keeps
\* the row order of the input
RegionRows(df, region) == SelectSeq(df, LAMBDA r : r.region = region)

\* line 110
Truncate(region_df, date) == SelectSeq(region_df, LAMBDA r : r.ds <= date)

ErrorOf(ill, smooth) == Series([k \in 1..Len(ill) |-> Sub(ill[k], smooth[k])])

\* lines 113-114
ErrorColumn(ill) == ErrorOf(ill, RollingMeanCenter(ill, SmoothWindow))

WithColumnError(fdf, e) ==
    Series([k \in 1..Len(fdf) |->
        [region |-> fdf[k].region, ds |-> fdf[k].ds, doy |-> fdf[k].doy,
         percent_ill |-> fdf[k].percent_ill, ibar |-> fdf[k].ibar,
         R |-> fdf[k].R, error |-> e[k]]])

WithError(fdf) == WithColumnError(fdf, ErrorColumn(Column(fdf, "percent_ill")))

LeakGuard == 15

\* line 119
MaskTail(fdf) ==
    Series([k \in 1..Len(fdf) |->
        IF k > Len(fdf) - LeakGuard THEN [fdf[k] EXCEPT !.R = NaN] ELSE fdf[k]])

\* lines 110-119: the frame forc_df the simulations start from
Prepare(region_df, date) == MaskTail(WithError(Truncate(region_df, date)))

\* line 115
ErrorScale(fdf) == Std(Column(fdf, "error"))

\* np.random.normal(loc=0, scale): scale times a standard normal draw z
Noise(scale, z) == Mul(scale, z)

\* the noise added by every simulation, simulation 0 included
SimInputJitterAll(run, fdf, noise) ==
    Series([k \in 1..Len(fdf) |-> [fdf[k] EXCEPT !.percent_ill = Add(@, noise)]])

\* lines 124-134: the frame handed to r0_forecast by simulation i
SimInput(run, fdf, noise) ==
    IF run = 0 THEN fdf
    ELSE Series([k \in 1..Len(fdf) |-> [fdf[k] EXCEPT !.percent_ill = Add(@, noise)]])

\* lines 138, 142, 143: the columns added to a forecast
TagRun(rows, run) ==
    Series([k \in 1..Len(rows) |->
        [ds |-> rows[k].ds, cutoff |-> rows[k].cutoff,
         percent_ill |-> rows[k].percent_ill, run |-> run]])

TagRegion(rows, region, scale) ==
    Series([k \in 1..Len(rows) |->
        [ds |-> rows[k].ds, cutoff |-> rows[k].cutoff,
         percent_ill |-> rows[k].percent_ill, run |-> rows[k].run,
         region |-> region, error_scale |-> scale]])

RECURSIVE Concat(_)
\* pd.concat(frames, axis=0)
Concat(frames) ==
    IF frames = <<>> THEN <<>> ELSE Head(frames) \o Concat(Tail(frames))

\* ------------------------------------------------------------------------
\* Inputs
\* ------------------------------------------------------------------------
\* Each region has PrevYearDays daily observations of the year before,
\* around the social-distancing day, and CurYearDays of the current year
\* that end on LastDay; with a gap, the day GapDay is not observed.  Regions
\* are handled one after the other and share nothing, so the tables of
\* several regions are run with one simulation.
PrevYearDays == 20

CurYearDays == 21

MaxRegions == 2

MaxHorizon == 2

MaxSimulations == 2

PrevYearStart == SocialDoy - 6

CurYearStart == YearLen + SocialDoy - 16

LastDay == CurYearStart + CurYearDays - 1

GapDay == LastDay - 2

AllDays ==
    Series([k \in 1..(PrevYearDays + CurYearDays) |->
        IF k <= PrevYearDays THEN PrevYearStart + k - 1
        ELSE CurYearStart + (k - PrevYearDays) - 1])

Days(gap) == IF gap THEN SelectSeq(AllDays, LAMBDA d : d # GapDay) ELSE AllDays

Shapes == {"flat", "wave"}

\* the incidence of a region on its k-th day, in (0, 2]
Level(shape, region, k) ==
    CASE shape = "flat" -> 130000000 + (region - 1) * 20000000
      [] shape = "wave" -> 100000000 + 25000000 * ((k + region) % 3)

\* the rows of a region come by date or newest first; a day is missing only
\* from tables that come by date
Layouts ==
    {[gap |-> FALSE, order |-> "by_date"], [gap |-> TRUE, order |-> "by_date"],
     [gap |-> FALSE, order |-> "newest_first"]}

RowsOn(days, shape, order, region) ==
    Series([k \in 1..Len(days) |->
        [region |-> region,
         ds |-> days[IF order = "by_date" THEN k ELSE Len(days) + 1 - k],
         doy |-> DayOfYear(days[IF order = "by_date" THEN k ELSE Len(days) + 1 - k]),
         percent_ill |-> Level(shape, region,
                               IF order = "by_date" THEN k ELSE Len(days) + 1 - k)]])

RECURSIVE Table(_, _, _, _)
Table(shape, gap, order, regions) ==
    IF regions = 0 THEN <<>>
    ELSE Table(shape, gap, order, regions - 1)
             \o RowsOn(Days(gap), shape, order, regions)

RunDateLists == {<<LastDay - 5, LastDay>>, <<LastDay - 2>>, <<LastDay + 2>>}

SocialMods == {<<>>, <<Scale \div 2>>}

\* standard normal draws of the random source
ZDraws == {-Scale, Scale \div 2}

\* ------------------------------------------------------------------------
\* anomaly_wrapper as a state machine
\* ------------------------------------------------------------------------
VARIABLES
    df, run_dates, horizon, simulations, social_mod,  \* the arguments
    pc,          \* "region": line 103, "date": line 109, "sim": line 123,
                 \* "done": returned, "raised": ended by an exception
    ri,          \* index of the region of the outer loop in df.region.unique()
    di,          \* index of the run date of the loop of line 109
    i,           \* the simulation index of the loop of line 123
    region_df, forc_df, error_scale, forc_list, dfs,
    sim_df,      \* the frame of the latest call of r0_forecast
    ret,         \* what that call returned or raised
    result       \* the value returned by anomaly_wrapper

vars == <<df, run_dates, horizon, simulations, social_mod, pc, ri, di, i,
          region_df, forc_df, error_scale, forc_list, dfs, sim_df, ret, result>>

args == <<df, run_dates, horizon, simulations, social_mod>>

NoCall == [err |-> "none", avgR |-> <<>>, rows |-> <<>>]

RegionList == Unique(Column(df, "region"))

Init ==
    /\ \E shape \in Shapes, layout \in Layouts, n \in 1..MaxRegions :
           /\ df = Table(shape, layout.gap, layout.order, n)
           /\ simulations \in IF n = 1 THEN 1..MaxSimulations ELSE {1}
    /\ run_dates \in RunDateLists
    /\ horizon \in 1..MaxHorizon
    /\ social_mod \in SocialMods
    /\ pc = "region"
    /\ ri = 1
    /\ di = 1
    /\ i = 0
    /\ region_df = <<>>
    /\ forc_df = <<>>
    /\ error_scale = NaN
    /\ forc_list = <<>>
    /\ dfs = <<>>
    /\ sim_df = <<>>
    /\ ret = NoCall
    /\ result = <<>>

\* lines 103-107
NextRegion ==
    /\ pc = "region"
    /\ ri <= Len(RegionList)
    /\ region_df' = get_epivars(RegionRows(df, RegionList[ri]), w)
    /\ di' = 1
    /\ pc' = "date"
    /\ UNCHANGED <<args, ri, i, forc_df, error_scale, forc_list, dfs, sim_df,
                   ret, result>>

\* lines 109-122
NextDate ==
    /\ pc = "date"
    /\ di <= Len(run_dates)
    /\ forc_df' = Prepare(region_df, run_dates[di])
    /\ error_scale' = ErrorScale(forc_df')
    /\ forc_list' = <<>>
    /\ i' = 0
    /\ pc' = "sim"
    /\ UNCHANGED <<args, ri, di, region_df, dfs, sim_df, ret, result>>

\* lines 123-139, r0_forecast returns
Simulate ==
    /\ pc = "sim"
    /\ i < simulations
    /\ \E z \in ZDraws :
           /\ sim_df' = SimInput(i, forc_df, Noise(error_scale, z))
           /\ ret' = r0_forecast(sim_df', w, horizon, social_mod)
    /\ ret'.err = "none"
    /\ forc_list' = Append(forc_list, TagRun(ret'.rows, i))
    /\ i' = i + 1
    /\ UNCHANGED <<args, pc, ri, di, region_df, forc_df, error_scale, dfs, result>>

\* lines 123-136, r0_forecast raises: anomaly_wrapper ends with the exception
SimulateRaises ==
    /\ pc = "sim"
    /\ i < simulations
    /\ \E z \in ZDraws :
           /\ sim_df' = SimInput(i, forc_df, Noise(error_scale, z))
           /\ ret' = r0_forecast(sim_df', w, horizon, social_mod)
    /\ ret'.err # "none"
    /\ pc' = "raised"
    /\ UNCHANGED <<args, ri, di, i, region_df, forc_df, error_scale, forc_list,
                   dfs, result>>

\* lines 141-145
EndDate ==
    /\ pc = "sim"
    /\ i = simulations
    /\ dfs' = Append(dfs, TagRegion(Concat(forc_list), RegionList[ri], error_scale))
    /\ di' = di + 1
    /\ pc' = "date"
    /\ UNCHANGED <<args, ri, i, region_df, forc_df, error_scale, forc_list,
                   sim_df, ret, result>>

\* line 147
EndRegion ==
    /\ pc = "date"
    /\ di > Len(run_dates)
    /\ ri' = ri + 1
    /\ pc' = "region"
    /\ UNCHANGED <<args, di, i, region_df, forc_df, error_scale, forc_list, dfs,
                   sim_df, ret, result>>

\* line 149
Return ==
    /\ pc = "region"
    /\ ri > Len(RegionList)
    /\ result' = Concat(dfs)
    /\ pc' = "done"
    /\ UNCHANGED <<args, ri, di, i, region_df, forc_df, error_scale, forc_list,
                   dfs, sim_df, ret>>

Next ==
    \/ NextRegion
    \/ NextDate
    \/ Simulate
    \/ SimulateRaises
    \/ EndDate
    \/ EndRegion
    \/ Return

Spec == Init /\ [][Next]_vars

\* ------------------------------------------------------------------------
\* What the properties speak of
\* ------------------------------------------------------------------------
\* a call of r0_forecast has been made; sim_df and ret are its frame and outcome
Called == sim_df # <<>>

\* the call was made for the run date run_dates[di] of region RegionList[ri]
CalledForDate == Called /\ (pc = "raised" \/ (pc = "sim" /\ i >= 1))

Cutoff == MaxDs(sim_df)

HorizDays == horizon * 7

\* the working buffer of the forecast: day j <= 0 is the observation of
\* cutoff + j, day j >= 1 the j-th forecast
Buffer(j) ==
    IF j >= 1 THEN ret.rows[j].percent_ill ELSE IllOn(sim_df, Cutoff + j)

\* the R values of the rows of sim_df with day of year d
RValues(d) == Column(SelectSeq(sim_df, LAMBDA r : r.doy = d), "R")

MissingForecastDoy ==
    \E d \in 1..HorizDays : DayOfYear(Cutoff + d) \notin DOMAIN ret.avgR

ObservedLastFive ==
    {j \in 0..4 : \E k \in 1..Len(sim_df) : sim_df[k].ds = Cutoff - j}

\* the input with delta added to every observation dated after date
AltFuture(date, delta) ==
    Series([k \in 1..Len(df) |->
        IF df[k].ds > date THEN [df[k] EXCEPT !.percent_ill = @ + delta]
        ELSE df[k]])

\* the ReproductionProfile of a region and run date for the input table
Profile(table, region, date) ==
    AvgR(Prepare(get_epivars(RegionRows(table, region), w), date))

\* the output block of a region and run date when simulation 0 is the only one
\* and forecasts from the truncated series as it is
BaselineBlock(region, fdf) ==
    TagRegion(TagRun(r0_forecast(fdf, w, horizon, social_mod).rows, 0),
              region, ErrorScale(fdf))

BaselineFor(region, date) ==
    BaselineBlock(region, Prepare(get_epivars(RegionRows(df, region), w), date))

ErrorScaleFor(region, date) ==
    ErrorScale(Prepare(get_epivars(RegionRows(df, region), w), date))

BlockRegion(b) == RegionList[((b - 1) \div Len(run_dates)) + 1]

BlockDate(b) == run_dates[((b - 1) % Len(run_dates)) + 1]

IsConstant(frame) ==
    \A k \in 1..Len(frame) : frame[k].percent_ill = frame[1].percent_ill

\* two derived frames give every observation the same ibar and R
SameDerived(a, b) ==
    \A k \in 1..Len(a) :
        \E j \in 1..Len(b) :
            /\ b[j].ds = a[k].ds
            /\ b[j].ibar = a[k].ibar
            /\ b[j].R = a[k].R

\* the rows where both centered 30-day means of get_epivars are defined
RatioDefined(n) == {k \in 1..n : k - 15 >= 1 /\ k + 15 <= n}

\* ------------------------------------------------------------------------
\* Properties
\* ------------------------------------------------------------------------

\* C1: no future leakage.  The ReproductionProfile built for a run date is
\* the same for every input that agrees with df on the observations dated
\* up to the run date and differs after it.
C1_NoFutureLeakage ==
    pc = "sim" =>
        \A delta \in {50000000} :
            Profile(AltFuture(run_dates[di], delta), RegionList[ri], run_dates[di])
                = AvgR(forc_df)

\* C2: input row order does not matter.  The ibar and R derived for each
\* observation of a region are those derived from the date-sorted rows.
C2_RowOrderIrrelevant ==
    pc = "date" =>
        SameDerived(region_df,
                    get_epivars(SortByDs(RegionRows(df, RegionList[ri])), w))

\* C3: UnknownDayOfYear is surfaced.  When the day of year of a forecast date
\* cutoff + d, 1 <= d <= horizon * 7, is absent from the profile, r0_forecast
\* raises, returns no forecast, and anomaly_wrapper ends with the exception.
C3_UnknownDayOfYearSurfaced ==
    (Called /\ MissingForecastDoy) =>
        /\ ret.err \in {"KeyError", "ValueError"}
        /\ ret.rows = <<>>
        /\ pc = "raised"
        /\ result = <<>>

C3_Witness ==
    /\ Called
    /\ MissingForecastDoy
    /\ DayOfYear(Cutoff + 1) \in DOMAIN ret.avgR
    /\ pc = "raised"

\* C4: InsufficientHistory is surfaced.  When fewer than 5 of the days
\* cutoff - 4 .. cutoff have an observation, the forecast raises instead of
\* returning forecast points.
C4_InsufficientHistorySurfaced ==
    (Called /\ Cardinality(ObservedLastFive) < 5) => ret.err # "none"

\* C5: horizon length.  A forecast that completes has exactly horizon * 7
\* points, dated run_date + 1 .. run_date + horizon * 7.
C5_HorizonAfterRunDate ==
    (CalledForDate /\ ret.err = "none") =>
        /\ Len(ret.rows) = HorizDays
        /\ \A k \in 1..Len(ret.rows) : ret.rows[k].ds = run_dates[di] + k

\* C6: tagging.  Every forecast point of the output carries its region, the
\* index of its simulation, the error_scale of its region and run date, and
\* the run date it was requested for as cutoff.
C6_TaggedWithRunDate ==
    \A b \in 1..Len(dfs) :
        \A k \in 1..Len(dfs[b]) :
            /\ dfs[b][k].region = BlockRegion(b)
            /\ dfs[b][k].run = (k - 1) \div HorizDays
            /\ dfs[b][k].error_scale = ErrorScaleFor(BlockRegion(b), BlockDate(b))
            /\ dfs[b][k].cutoff = BlockDate(b)

\* C7: determinism of simulation 0.  Simulation 0 forecasts from the truncated
\* series with no noise added, and with simulations = 1 the output table is
\* the one built from those forecasts, whatever the random source returns.
C7_SimulationZeroDeterministic ==
    /\ (pc = "sim" /\ i >= 1) =>
           /\ forc_list[1] = TagRun(r0_forecast(forc_df, w, horizon, social_mod).rows, 0)
           /\ \A k \in 1..Len(forc_list[1]) : forc_list[1][k].run = 0
    /\ (pc = "done" /\ simulations = 1) =>
           result = Concat([b \in 1..Len(dfs) |->
                               BaselineFor(BlockRegion(b), BlockDate(b))])

C7_Witness ==
    /\ pc = "done"
    /\ simulations = 1
    /\ result # <<>>
    /\ error_scale # NaN
    /\ error_scale > 0
    /\ result[1].percent_ill # NaN

\* C8: social modifier scoping.  With a multiplier m, every profile entry for
\* a day of year >= 76 is m times the median of that day's R values (half of
\* it, up to the last digit, for m = 0.5) and every other entry is that
\* median; without a multiplier every entry is the median.
C8_SocialModScoping ==
    Called =>
        /\ DOMAIN ret.avgR = {sim_df[k].doy : k \in 1..Len(sim_df)}
        /\ \A d \in DOMAIN ret.avgR :
               IF social_mod # <<>> /\ d >= 76
               THEN /\ ret.avgR[d] = Mul(social_mod[1], Median(RValues(d)))
                    /\ (social_mod[1] = Scale \div 2 /\ ret.avgR[d] # NaN) =>
                           Median(RValues(d)) - 2 * ret.avgR[d] \in {0, 1}
               ELSE ret.avgR[d] = Median(RValues(d))

C8_Witness ==
    /\ Called
    /\ social_mod # <<>>
    /\ {75, 76} \subseteq DOMAIN ret.avgR
    /\ ret.avgR[75] # NaN
    /\ ret.avgR[76] # NaN
    /\ ret.avgR[76] < ret.avgR[75]

\* C9: constant-series stability.  For a constant incidence series of value c
\* over at least 5 rows, ibar is c on every row (warm-up rows included), R is
\* 1 on every row where the ratio of the centered 30-day means is defined,
\* and every other R is filled with their mean, 1.
C9_ConstantSeriesStable ==
    (region_df # <<>> /\ Len(region_df) >= 5 /\ IsConstant(region_df)) =>
        \A k \in 1..Len(region_df) :
            /\ region_df[k].ibar = region_df[1].percent_ill
            /\ region_df[k].R =
                   IF RatioDefined(Len(region_df)) = {} THEN NaN ELSE Scale

C9_Witness ==
    /\ region_df # <<>>
    /\ IsConstant(region_df)
    /\ RatioDefined(Len(region_df)) # {}
    /\ RatioDefined(Len(region_df)) # 1..Len(region_df)
    /\ region_df[1].percent_ill # Scale

\* C10: forecast recurrence.  The forecast of day d is avgR of the day of year
\* of cutoff + d times the kernel-weighted sum of days d - 1 .. d - 5 of the
\* buffer, kernel index 0 on day d - 1 and index 4 on day d - 5, where the
\* buffer holds the observations for days <= 0 and the forecasts for days >= 1.
C10_ForecastRecurrence ==
    (Called /\ ret.err = "none") =>
        /\ Len(ret.rows) = HorizDays
        /\ \A d \in 1..HorizDays :
               ret.rows[d].percent_ill =
                   Mul(ret.avgR[DayOfYear(Cutoff + d)],
                       Dot(<<Buffer(d - 1), Buffer(d - 2), Buffer(d - 3),
                             Buffer(d - 4), Buffer(d - 5)>>, w))

C10_Witness ==
    /\ Called
    /\ ret.err = "none"
    /\ Len(ret.rows) = HorizDays
    /\ ret.rows[HorizDays].percent_ill # NaN
    /\ ret.rows[HorizDays].percent_ill # ret.rows[1].percent_ill
    /\ Buffer(-4) # Buffer(0)

====
